---- MODULE Spec2Model ----
(***************************************************************************)
(* Model of nix-ipc: Mtx (src/src/mtx.rs), a robust process-shared pthread *)
(* mutex living in the file /dev/shm/<name>.mtx, and Shm<T>                *)
(* (src/src/shm.rs), a value of type T living in the file /dev/shm/<name>. *)
(*                                                                         *)
(* One name is modelled (files of different names share nothing).  Every   *)
(* process is single threaded (Mtx and Shm hold raw pointers, so they are  *)
(* neither Send nor Sync) and owns at most one Mtx and one Shm handle at a *)
(* time.  Every OS call is one atomic step; the steps of different         *)
(* processes interleave freely.                                            *)
(*                                                                         *)
(* The control block is the glibc pthread_mutex_t of the Linux targets the *)
(* crate builds for: its leading int is the futex word __lock, which is 0  *)
(* when the mutex is free, the owner's TID when held, and FUTEX_OWNER_DIED *)
(* after the kernel processed the robust list of a dead owner.  The        *)
(* FUTEX_WAITERS bit, __count and __nusers are left out: the code never    *)
(* reads them and they never make the leading word zero or nonzero.        *)
(***************************************************************************)
EXTENDS Integers, FiniteSets, Sequences, TLC

\* ---------------------------------------------------------------- bounds
NProcs == 2
MaxTid == 3
MaxVal == 2
MaxRuns == 4
MaxProcs == 3
MaxFin == 3

\* the processes of the two-process specifications
Procs == 1..NProcs

\* every process there is; the third one runs only in SpecRec
AllProcs == 1..MaxProcs

\* ------------------------------------------------------- program constants
EPERM == 1
ENOMEM == 12
EINVAL == 22
EDEADLK == 35
EOWNERDEAD == 130
ENOTRECOVERABLE == 131
FUTEX_OWNER_DIED == 1073741824
PTHREAD_MUTEX_INCONSISTENT == 2147483647
PTHREAD_MUTEX_NOTRECOVERABLE == 2147483646
MtxSize == 40
I64Size == 8

VARIABLES
  pc,           \* pc[p]: where process p is ("dead" after termination)
  tid,          \* tid[p]: kernel thread id of the current incarnation of p
  nextTid,      \* next unused thread id
  mfile,        \* /dev/shm/<name>.mtx: [exists, size]
  mtx,          \* the control block bytes: [lock, owner, robust, pshared]
  flockHolder,  \* process holding the exclusive flock on the .mtx file, or 0
  first,        \* first[p]: the leading word read at mtx.rs:74
  attr,         \* attr[p]: the pthread_mutexattr_t on the stack of Mtx::new
  hasMtx,       \* hasMtx[p]: p owns a Mtx handle
  rl,           \* rl[p]: the entry of the mutex in p's robust list
  ret,          \* ret[p]: the last result an operation returned to p
  inCS,         \* history: lock() returned success to p, no unlock()/death since
  deathPending, \* history: a holder died and no lock() has returned since
  sfile,        \* /dev/shm/<name>: [exists, size, val]
  smap,         \* smap[p]: p's mapping of the value: "none", "shared", "private"
  priv,         \* priv[p]: the bytes of a private (copy-on-write) mapping
  shmT,         \* shmT[p]: size_of::<T>() of the Shm<T> p opens or owns
  reg,          \* reg[p]: the value the closure passed to access() has read
  lastWrite,    \* history: the last write done inside access(): [val, by, locked]
  fin           \* history: how often T's drop glue has run on the mapped value

vars == <<pc, tid, nextTid, mfile, mtx, flockHolder, first, attr, hasMtx,
          rl, ret, inCS, deathPending, sfile, smap, priv, shmT, reg, lastWrite,
          fin>>

mtxVars == <<mfile, mtx, flockHolder, first, attr, hasMtx, rl, inCS, deathPending>>
shmVars == <<sfile, smap, priv, shmT, reg, lastWrite, fin>>
procVars == <<tid, nextTid>>


\* ------------------------------------------------------------- helpers

\* nix::errno::Errno::result as called on an int: only the sentinel -1 is
\* an error, every other value (0 or a positive pthread error code) is Ok.
ErrnoResult(v) == IF v = -1 THEN "Err" ELSE "Ok"

\* A freshly grown file is zero-filled.
ZeroBlock == [lock |-> 0, owner |-> 0, robust |-> FALSE, pshared |-> FALSE]

NoRet == [op |-> "none", val |-> "none", rc |-> 0]

Ret(o, v) == [op |-> o, val |-> v, rc |-> 0]

\* pthread_mutex_init(mtx_ptr, &attr): memset to zero, then store the kind.
PthreadMutexInit(a) == [lock |-> 0, owner |-> 0, robust |-> a.robust, pshared |-> a.pshared]

\* What the kernel does to the control block when thread t terminates with
\* robust-list entry e: the futex word of a mutex it owns becomes
\* FUTEX_OWNER_DIED, provided the entry can still be read.
KernelExit(m, t, e) ==
  IF e = "ok" /\ m.robust /\ m.lock = t THEN [m EXCEPT !.lock = FUTEX_OWNER_DIED] ELSE m

\* pthread_mutex_unlock: [rc, block after the call].
PthreadMutexUnlock(m, t) ==
  IF m.robust
  THEN IF m.lock # t
       THEN [rc |-> EPERM, m |-> m]
       ELSE [rc |-> 0,
             m  |-> [m EXCEPT !.lock = 0,
                              !.owner = IF m.owner = PTHREAD_MUTEX_INCONSISTENT
                                        THEN PTHREAD_MUTEX_NOTRECOVERABLE ELSE 0]]
  ELSE [rc |-> 0, m |-> [m EXCEPT !.lock = 0, !.owner = 0]]

\* pthread_mutex_consistent: [rc, block after the call].
PthreadMutexConsistent(m, t) ==
  IF ~m.robust \/ m.owner # PTHREAD_MUTEX_INCONSISTENT
  THEN [rc |-> EINVAL, m |-> m]
  ELSE [rc |-> 0, m |-> [m EXCEPT !.owner = t]]

\* pthread_mutex_lock once it stops blocking: [rc, block after the call].
\* Enabled only when the futex word lets the caller in (PthreadCanLock).
PthreadCanLock(m) == m.lock = 0 \/ (m.robust /\ m.lock = FUTEX_OWNER_DIED)

PthreadMutexLock(m, t) ==
  IF ~m.robust
  THEN [rc |-> 0, m |-> [m EXCEPT !.lock = 1, !.owner = t]]
  ELSE IF m.lock = FUTEX_OWNER_DIED
       THEN [rc |-> EOWNERDEAD,
             m  |-> [m EXCEPT !.lock = t, !.owner = PTHREAD_MUTEX_INCONSISTENT]]
       ELSE IF m.owner = PTHREAD_MUTEX_NOTRECOVERABLE
            THEN [rc |-> ENOTRECOVERABLE, m |-> m]
            ELSE [rc |-> 0, m |-> [m EXCEPT !.lock = t, !.owner = t]]

\* Thread t owns the mutex as far as the control block says.
Holds(m, t) == IF m.robust THEN m.lock = t ELSE m.lock # 0 /\ m.owner = t

\* The leading c_int of the control block.
LeadingWord(m) == m.lock

\* ---------------------------------------------------------------- Init
Init ==
  /\ pc = [p \in AllProcs |-> "dead"]
  /\ tid = [p \in AllProcs |-> 0]
  /\ nextTid = 1
  /\ mfile = [exists |-> FALSE, size |-> 0]
  /\ mtx = ZeroBlock
  /\ flockHolder = 0
  /\ first = [p \in AllProcs |-> 0]
  /\ attr = [p \in AllProcs |-> [robust |-> FALSE, pshared |-> FALSE]]
  /\ hasMtx = [p \in AllProcs |-> FALSE]
  /\ rl = [p \in AllProcs |-> "none"]
  /\ ret = [p \in AllProcs |-> NoRet]
  /\ inCS = [p \in AllProcs |-> FALSE]
  /\ deathPending = FALSE
  /\ sfile = [exists |-> FALSE, size |-> 0, val |-> 0]
  /\ smap = [p \in AllProcs |-> "none"]
  /\ priv = [p \in AllProcs |-> 0]
  /\ shmT = [p \in AllProcs |-> 0]
  /\ reg = [p \in AllProcs |-> 0]
  /\ lastWrite = [val |-> 0, by |-> 0, locked |-> FALSE]
  /\ fin = 0

\* ------------------------------------------------------------ Mtx::new
\* Steps that touch only the caller's own descriptors, mappings or stack are
\* taken together with the step on shared state that precedes them.  Every
\* step takes the result the OS call hands back: rc = 0 is success, -1 the
\* failure of a system call (nix maps it to Err, `?` returns it), a positive
\* number the error a pthread function returns.

NoAttr == [robust |-> FALSE, pshared |-> FALSE]

\* an error return that keeps the Flock guard alive (the flock stays held)
MtxNewErrLeak(p, rc) ==
  /\ pc' = [pc EXCEPT ![p] = "idle"]
  /\ ret' = [ret EXCEPT ![p] = [op |-> "new", val |-> "Err", rc |-> rc]]
  /\ flockHolder' = flockHolder
  /\ first' = [first EXCEPT ![p] = 0]
  /\ attr' = [attr EXCEPT ![p] = NoAttr]

\* `?` on an Err inside Mtx::new: the descriptors and the Flock guard drop
\* (which releases the flock), the error goes to the caller.
MtxNewErr(p, rc) ==
  /\ pc' = [pc EXCEPT ![p] = "idle"]
  /\ ret' = [ret EXCEPT ![p] = [op |-> "new", val |-> "Err", rc |-> rc]]
  /\ flockHolder' = IF flockHolder = p THEN 0 ELSE flockHolder
  /\ first' = [first EXCEPT ![p] = 0]
  /\ attr' = [attr EXCEPT ![p] = NoAttr]

\* mtx.rs:44-49 open(path, O_CREAT | O_RDWR, 0600)?
MtxNewOpenOs(p, rc) ==
  /\ pc[p] = "idle" /\ ~hasMtx[p]
  /\ IF rc = -1
     THEN MtxNewErr(p, rc) /\ UNCHANGED mfile
     ELSE /\ pc' = [pc EXCEPT ![p] = "n_trunc"]
          /\ mfile' = [mfile EXCEPT !.exists = TRUE]
          /\ ret' = [ret EXCEPT ![p] = NoRet]
          /\ UNCHANGED <<flockHolder, first, attr>>
  /\ UNCHANGED <<mtx, hasMtx, rl, inCS, deathPending>>
  /\ UNCHANGED <<shmVars, procVars>>

MtxNewOpen(p) == MtxNewOpenOs(p, 0)

\* mtx.rs:51-54 ftruncate(&fd, size_of::<pthread_mutex_t>())?: growing
\* zero-fills; then Errno::result(dup(fd))?
MtxNewTruncateOs(p, rc) ==
  /\ pc[p] = "n_trunc"
  /\ IF rc = -1
     THEN MtxNewErr(p, rc) /\ UNCHANGED <<mtx, mfile>>
     ELSE /\ pc' = [pc EXCEPT ![p] = "n_flock"]
          /\ mtx' = IF mfile.size = MtxSize THEN mtx ELSE ZeroBlock
          /\ mfile' = [mfile EXCEPT !.size = MtxSize]
          /\ UNCHANGED <<flockHolder, first, attr, ret>>
  /\ UNCHANGED <<hasMtx, rl, inCS, deathPending>>
  /\ UNCHANGED <<shmVars, procVars>>

MtxNewTruncate(p) == MtxNewTruncateOs(p, 0)

\* the flock taken shared (LockShared): it never waits for another holder
MtxNewFlockOsShared(p, rc) ==
  /\ pc[p] = "n_flock"
  /\ IF rc = -1
     THEN MtxNewErr(p, rc) /\ UNCHANGED rl
     ELSE /\ flockHolder' = p
          /\ \E same \in BOOLEAN :
               rl' = [rl EXCEPT ![p] = IF rl[p] = "dangling" /\ same THEN "ok" ELSE rl[p]]
          /\ pc' = [pc EXCEPT ![p] = "n_read"]
          /\ UNCHANGED <<first, attr, ret>>
  /\ UNCHANGED <<mfile, mtx, hasMtx, inCS, deathPending>>
  /\ UNCHANGED <<shmVars, procVars>>

\* mtx.rs:56-72 Flock::lock(dup_fd, LockExclusive) blocks while another
\* process holds the flock; then mmap(..., MAP_SHARED, &fd, 0)?.  A
\* robust-list entry left dangling by an earlier munmap is readable again if
\* the kernel hands out the same address.
MtxNewFlockOs(p, rc) ==
  /\ pc[p] = "n_flock"
  /\ IF rc = -1
     THEN MtxNewErr(p, rc) /\ UNCHANGED rl
     ELSE /\ flockHolder = 0
          /\ flockHolder' = p
          /\ \E same \in BOOLEAN :
               rl' = [rl EXCEPT ![p] = IF rl[p] = "dangling" /\ same THEN "ok" ELSE rl[p]]
          /\ pc' = [pc EXCEPT ![p] = "n_read"]
          /\ UNCHANGED <<first, attr, ret>>
  /\ UNCHANGED <<mfile, mtx, hasMtx, inCS, deathPending>>
  /\ UNCHANGED <<shmVars, procVars>>

MtxNewFlock(p) == MtxNewFlockOs(p, 0)

\* mtx.rs:74-83 let first = *(mtx_ptr as *const c_int); if first == 0 the
\* attribute object is built from a zeroed one:
\* Errno::result(pthread_mutexattr_init)?, _setpshared, _setrobust.  a is the
\* attribute object the three calls leave, rc the first nonzero code one of
\* them returned (0 if none).
MtxNewReadFirstOs(p, a, rc) ==
  /\ pc[p] = "n_read"
  /\ IF LeadingWord(mtx) = 0
     THEN IF ErrnoResult(rc) = "Err"
          THEN MtxNewErr(p, rc)
          ELSE /\ first' = [first EXCEPT ![p] = LeadingWord(mtx)]
               /\ attr' = [attr EXCEPT ![p] = a]
               /\ ret' = [ret EXCEPT ![p].rc = rc]
               /\ pc' = [pc EXCEPT ![p] = "n_init"]
               /\ UNCHANGED flockHolder
     ELSE /\ rc = 0 /\ a = [robust |-> TRUE, pshared |-> TRUE]
          /\ first' = [first EXCEPT ![p] = LeadingWord(mtx)]
          /\ pc' = [pc EXCEPT ![p] = "n_unflock"]
          /\ UNCHANGED <<attr, ret, flockHolder>>
  /\ UNCHANGED <<mfile, mtx, hasMtx, rl, inCS, deathPending>>
  /\ UNCHANGED <<shmVars, procVars>>

MtxNewReadFirst(p) == MtxNewReadFirstOs(p, [robust |-> TRUE, pshared |-> TRUE], 0)

\* mtx.rs:84-85 Errno::result(pthread_mutex_init(mtx_ptr, &attr))?;
\* Errno::result(pthread_mutexattr_destroy(&mut attr))?.  rc is what
\* pthread_mutex_init returns; when it fails the block is left as it was.
MtxNewInitOs(p, rc) ==
  /\ pc[p] = "n_init"
  /\ mtx' = IF rc = 0 THEN PthreadMutexInit(attr[p]) ELSE mtx
  /\ IF ErrnoResult(rc) = "Err"
     THEN MtxNewErr(p, rc)
     ELSE /\ attr' = [attr EXCEPT ![p] = NoAttr]
          /\ ret' = [ret EXCEPT ![p].rc = IF ret[p].rc = 0 THEN rc ELSE ret[p].rc]
          /\ pc' = [pc EXCEPT ![p] = "n_unflock"]
          /\ UNCHANGED <<flockHolder, first>>
  /\ UNCHANGED <<mfile, hasMtx, rl, inCS, deathPending>>
  /\ UNCHANGED <<shmVars, procVars>>

MtxNewInit(p) == MtxNewInitOs(p, 0)

\* mtx.rs:89-96 init_lock.unlock().map_err(..)?; Ok(Self { _fd: fd, ptr })
MtxNewReturnOs(p, rc) ==
  /\ pc[p] = "n_unflock"
  /\ IF rc = -1
     THEN MtxNewErr(p, rc) /\ UNCHANGED hasMtx
     ELSE /\ flockHolder' = IF flockHolder = p THEN 0 ELSE flockHolder
          /\ hasMtx' = [hasMtx EXCEPT ![p] = TRUE]
          /\ first' = [first EXCEPT ![p] = 0]
          /\ ret' = [ret EXCEPT ![p] = [op |-> "new", val |-> "Ok", rc |-> ret[p].rc]]
          /\ pc' = [pc EXCEPT ![p] = "idle"]
          /\ UNCHANGED attr
  /\ UNCHANGED <<mfile, mtx, rl, inCS, deathPending>>
  /\ UNCHANGED <<shmVars, procVars>>

MtxNewReturn(p) == MtxNewReturnOs(p, 0)

\* ----------------------------------------------------------- Mtx::lock

\* mtx.rs:99-100 the call of lock(): the process enters pthread_mutex_lock
MtxLockCall(p) ==
  /\ pc[p] = "idle" /\ hasMtx[p]
  /\ pc' = [pc EXCEPT ![p] = "l_lock"]
  /\ ret' = [ret EXCEPT ![p] = NoRet]
  /\ UNCHANGED <<mtxVars, shmVars, procVars>>

\* mtx.rs:100-111 pthread_mutex_lock has returned r = [rc, m]: on EOWNERDEAD
\* go on to pthread_mutex_consistent, else the result is
\* Errno::result(err).map(|_| LockResult::Acquired)
MtxLockAcquireOs(p, r) ==
  /\ pc[p] = "l_lock"
  /\ mtx' = r.m
  /\ rl' = [rl EXCEPT ![p] = IF r.m.robust /\ Holds(r.m, tid[p]) THEN "ok" ELSE rl[p]]
  /\ IF r.rc = EOWNERDEAD
     THEN /\ pc' = [pc EXCEPT ![p] = "l_cons"]
          /\ UNCHANGED <<ret, inCS, deathPending>>
     ELSE /\ pc' = [pc EXCEPT ![p] = "idle"]
          /\ ret' = [ret EXCEPT ![p] =
                       [op |-> "lock",
                        val |-> IF ErrnoResult(r.rc) = "Ok" THEN "Acquired" ELSE "Err",
                        rc |-> r.rc]]
          /\ inCS' = [inCS EXCEPT ![p] = inCS[p] \/ ErrnoResult(r.rc) = "Ok"]
          /\ deathPending' = (deathPending /\ ErrnoResult(r.rc) # "Ok")
  /\ UNCHANGED <<mfile, flockHolder, first, attr, hasMtx>>
  /\ UNCHANGED <<shmVars, procVars>>

\* pthread_mutex_lock blocks until the futex word lets the caller in
MtxLockAcquire(p) ==
  /\ PthreadCanLock(mtx)
  /\ MtxLockAcquireOs(p, PthreadMutexLock(mtx, tid[p]))

\* mtx.rs:101-106 after EOWNERDEAD: pthread_mutex_consistent has returned
\* r = [rc, m]; Errno::result(rc).map_err(..)?; Ok(OwnerDiedRecovered)
MtxLockConsistentOs(p, r) ==
  /\ pc[p] = "l_cons"
  /\ mtx' = r.m
  /\ ret' = [ret EXCEPT ![p] =
               [op |-> "lock",
                val |-> IF ErrnoResult(r.rc) = "Ok" THEN "OwnerDiedRecovered" ELSE "Err",
                rc |-> r.rc]]
  /\ inCS' = [inCS EXCEPT ![p] = inCS[p] \/ ErrnoResult(r.rc) = "Ok"]
  /\ deathPending' = (deathPending /\ ErrnoResult(r.rc) # "Ok")
  /\ pc' = [pc EXCEPT ![p] = "idle"]
  /\ UNCHANGED <<mfile, flockHolder, first, attr, hasMtx, rl>>
  /\ UNCHANGED <<shmVars, procVars>>

MtxLockConsistent(p) == MtxLockConsistentOs(p, PthreadMutexConsistent(mtx, tid[p]))

\* --------------------------------------------------------- Mtx::unlock

\* mtx.rs:114-120 Errno::result(pthread_mutex_unlock(self.ptr)).map(|_| ())
MtxUnlock(p) ==
  /\ pc[p] = "idle" /\ hasMtx[p]
  /\ LET r == PthreadMutexUnlock(mtx, tid[p]) IN
       /\ mtx' = r.m
       /\ rl' = [rl EXCEPT ![p] = IF r.rc = 0 THEN "none" ELSE rl[p]]
       /\ ret' = [ret EXCEPT ![p] = [op |-> "unlock", val |-> ErrnoResult(r.rc), rc |-> r.rc]]
  /\ inCS' = [inCS EXCEPT ![p] = FALSE]
  /\ UNCHANGED <<pc, mfile, flockHolder, first, attr, hasMtx, deathPending>>
  /\ UNCHANGED <<shmVars, procVars>>

\* ------------------------------------------------------- Drop for Mtx

\* Drop that also runs pthread_mutex_destroy (the call commented out at
\* mtx.rs:127): the kind of the control block becomes invalid
MtxDropDestroy(p) ==
  /\ pc[p] = "idle" /\ hasMtx[p]
  /\ hasMtx' = [hasMtx EXCEPT ![p] = FALSE]
  /\ mtx' = [mtx EXCEPT !.robust = FALSE, !.pshared = FALSE]
  /\ rl' = [rl EXCEPT ![p] = IF rl[p] = "ok" THEN "dangling" ELSE rl[p]]
  /\ UNCHANGED <<pc, mfile, flockHolder, first, attr, inCS, deathPending, ret>>
  /\ UNCHANGED <<shmVars, procVars>>

\* mtx.rs:123-135 munmap only; the fd closes when the field drops
MtxDrop(p) ==
  /\ pc[p] = "idle" /\ hasMtx[p]
  /\ hasMtx' = [hasMtx EXCEPT ![p] = FALSE]
  /\ rl' = [rl EXCEPT ![p] = IF rl[p] = "ok" THEN "dangling" ELSE rl[p]]
  /\ UNCHANGED <<pc, mfile, mtx, flockHolder, first, attr, inCS, deathPending, ret>>
  /\ UNCHANGED <<shmVars, procVars>>

\* ------------------------------------------------------------ Shm::new

Sizes == {0, I64Size}

\* the mapping made MAP_PRIVATE: every handle gets its own copy
ShmMapFlagsPrivate == "private"

\* shm.rs:56-65 the flags of the mapping
ShmMapFlags == "shared"

\* the value a handle's pointer refers to
ShmLoad(p) == IF smap[p] = "shared" THEN sfile.val ELSE priv[p]

\* Shm::new without the zero-size check: the file is opened whatever the size
ShmNewOpenNoCheck(p, sz) ==
  /\ pc[p] = "idle" /\ smap[p] = "none"
  /\ sfile' = [sfile EXCEPT !.exists = TRUE]
  /\ shmT' = [shmT EXCEPT ![p] = sz]
  /\ pc' = [pc EXCEPT ![p] = "s_trunc"]
  /\ ret' = [ret EXCEPT ![p] = NoRet]
  /\ UNCHANGED <<smap, priv, reg, lastWrite, fin>>
  /\ UNCHANGED <<mtxVars, procVars>>

\* shm.rs:43-52 NonZeroUsize::new(size_of::<T>()).ok_or_else(..)?; open(O_CREAT)
ShmNewOpen(p, sz) ==
  /\ pc[p] = "idle" /\ smap[p] = "none"
  /\ IF sz = 0
     THEN /\ ret' = [ret EXCEPT ![p] = Ret("shmnew", "Err")]
          /\ UNCHANGED <<pc, sfile, shmT>>
     ELSE /\ sfile' = [sfile EXCEPT !.exists = TRUE]
          /\ shmT' = [shmT EXCEPT ![p] = sz]
          /\ pc' = [pc EXCEPT ![p] = "s_trunc"]
          /\ ret' = [ret EXCEPT ![p] = NoRet]
  /\ UNCHANGED <<smap, priv, reg, lastWrite, fin>>
  /\ UNCHANGED <<mtxVars, procVars>>

\* the file truncated to nothing before it is sized: every open clears it
ShmNewTruncateZero(p) ==
  /\ pc[p] = "s_trunc"
  /\ sfile' = [sfile EXCEPT !.size = shmT[p], !.val = 0]
  /\ pc' = [pc EXCEPT ![p] = "s_mmap"]
  /\ UNCHANGED <<smap, priv, shmT, reg, lastWrite, fin, ret>>
  /\ UNCHANGED <<mtxVars, procVars>>

\* shm.rs:54 ftruncate(&fd, shm_size): growing zero-fills, same size keeps
ShmNewTruncate(p) ==
  /\ pc[p] = "s_trunc"
  /\ sfile' = [sfile EXCEPT !.size = shmT[p],
                            !.val = IF sfile.size = shmT[p] THEN sfile.val ELSE 0]
  /\ pc' = [pc EXCEPT ![p] = "s_mmap"]
  /\ UNCHANGED <<smap, priv, shmT, reg, lastWrite, fin, ret>>
  /\ UNCHANGED <<mtxVars, procVars>>

\* Shm::new that stores a default value (0) through the fresh mapping
ShmNewMmapInit(p) ==
  /\ pc[p] = "s_mmap"
  /\ smap' = [smap EXCEPT ![p] = ShmMapFlags]
  /\ priv' = [priv EXCEPT ![p] = 0]
  /\ sfile' = [sfile EXCEPT !.val = 0]
  /\ ret' = [ret EXCEPT ![p] = Ret("shmnew", "Ok")]
  /\ pc' = [pc EXCEPT ![p] = "idle"]
  /\ UNCHANGED <<shmT, reg, lastWrite, fin>>
  /\ UNCHANGED <<mtxVars, procVars>>

\* shm.rs:56-73 mmap(..., MAP_SHARED, &fd, 0); Ok(Self { .. })
ShmNewMmap(p) ==
  /\ pc[p] = "s_mmap"
  /\ smap' = [smap EXCEPT ![p] = ShmMapFlags]
  /\ priv' = [priv EXCEPT ![p] = IF ShmMapFlags = "shared" THEN 0 ELSE sfile.val]
  /\ ret' = [ret EXCEPT ![p] = Ret("shmnew", "Ok")]
  /\ pc' = [pc EXCEPT ![p] = "idle"]
  /\ UNCHANGED <<sfile, shmT, reg, lastWrite, fin>>
  /\ UNCHANGED <<mtxVars, procVars>>

\* --------------------------------------------------------- Shm::access

\* access() that waits until no other process is inside access()
ShmAccessReadLocked(p) ==
  /\ pc[p] = "idle" /\ smap[p] # "none"
  /\ \A q \in AllProcs \ {p} : pc[q] # "a_in"
  /\ reg' = [reg EXCEPT ![p] = ShmLoad(p)]
  /\ pc' = [pc EXCEPT ![p] = "a_in"]
  /\ ret' = [ret EXCEPT ![p] = NoRet]
  /\ UNCHANGED <<sfile, smap, priv, shmT, lastWrite, fin>>
  /\ UNCHANGED <<mtxVars, procVars>>

\* shm.rs:77-82 access(accessor): the closure gets &mut T and reads it
ShmAccessRead(p) ==
  /\ pc[p] = "idle" /\ smap[p] # "none"
  /\ reg' = [reg EXCEPT ![p] = ShmLoad(p)]
  /\ pc' = [pc EXCEPT ![p] = "a_in"]
  /\ ret' = [ret EXCEPT ![p] = NoRet]
  /\ UNCHANGED <<sfile, smap, priv, shmT, lastWrite, fin>>
  /\ UNCHANGED <<mtxVars, procVars>>

\* shm.rs:82 the closure stores v through the &mut T and returns
ShmAccessWrite(p, v) ==
  /\ pc[p] = "a_in"
  /\ v \in 0..MaxVal
  /\ IF smap[p] = "shared"
     THEN sfile' = [sfile EXCEPT !.val = v] /\ UNCHANGED priv
     ELSE priv' = [priv EXCEPT ![p] = v] /\ UNCHANGED sfile
  /\ lastWrite' = [val |-> v, by |-> p, locked |-> inCS[p]]
  /\ ret' = [ret EXCEPT ![p] = Ret("access", "Ok")]
  /\ pc' = [pc EXCEPT ![p] = "idle"]
  /\ UNCHANGED <<smap, shmT, reg, fin>>
  /\ UNCHANGED <<mtxVars, procVars>>

\* shm.rs:82 the closure returns without storing
ShmAccessReturn(p) ==
  /\ pc[p] = "a_in"
  /\ ret' = [ret EXCEPT ![p] = Ret("access", "Ok")]
  /\ pc' = [pc EXCEPT ![p] = "idle"]
  /\ UNCHANGED <<sfile, smap, priv, shmT, reg, lastWrite, fin>>
  /\ UNCHANGED <<mtxVars, procVars>>

\* shm.rs:96-102 drop_in_place(ptr) (nothing to run for i64); munmap
ShmDrop(p) ==
  /\ pc[p] = "idle" /\ smap[p] # "none"
  /\ smap' = [smap EXCEPT ![p] = "none"]
  /\ priv' = [priv EXCEPT ![p] = 0]
  /\ UNCHANGED <<pc, sfile, shmT, reg, lastWrite, fin, ret>>
  /\ UNCHANGED <<mtxVars, procVars>>

\* Drop for a Shm<T> whose T has drop glue, in the other order: munmap first
ShmDropMunmapFirst(p) ==
  /\ pc[p] = "idle" /\ smap[p] # "none"
  /\ fin < MaxFin
  /\ smap' = [smap EXCEPT ![p] = "none"]
  /\ priv' = [priv EXCEPT ![p] = 0]
  /\ pc' = [pc EXCEPT ![p] = "d_unmap"]
  /\ UNCHANGED <<sfile, shmT, reg, lastWrite, fin, ret>>
  /\ UNCHANGED <<mtxVars, procVars>>

\* shm.rs:99 std::ptr::drop_in_place(self.ptr) for a T with drop glue: T's
\* finalization runs on the mapped value, the mapping still in place
ShmDropInPlace(p) ==
  /\ pc[p] = "idle" /\ smap[p] # "none"
  /\ fin < MaxFin
  /\ fin' = fin + 1
  /\ pc' = [pc EXCEPT ![p] = "d_unmap"]
  /\ UNCHANGED <<sfile, smap, priv, shmT, reg, lastWrite, ret>>
  /\ UNCHANGED <<mtxVars, procVars>>

\* shm.rs:100 Errno::result(munmap(self.ptr, self.len.get())).ok(): the
\* mapping goes, the result is discarded, the file stays
ShmDropMunmap(p) ==
  /\ pc[p] = "d_unmap"
  /\ smap' = [smap EXCEPT ![p] = "none"]
  /\ priv' = [priv EXCEPT ![p] = 0]
  /\ pc' = [pc EXCEPT ![p] = "idle"]
  /\ ret' = [ret EXCEPT ![p] = Ret("shmdrop", "Ok")]
  /\ UNCHANGED <<sfile, shmT, reg, lastWrite, fin>>
  /\ UNCHANGED <<mtxVars, procVars>>

\* ------------------------------------------------------ process lifetime

\* A process starts: a new thread id, no handles.  At most n processes are
\* ever started.
StartUpTo(p, n) ==
  /\ pc[p] = "dead"
  /\ nextTid <= n
  /\ tid' = [tid EXCEPT ![p] = nextTid]
  /\ nextTid' = nextTid + 1
  /\ pc' = [pc EXCEPT ![p] = "idle"]
  /\ UNCHANGED <<mtxVars, shmVars, ret>>

Start(p) == StartUpTo(p, MaxTid)

\* A process terminates (exit, crash or kill) anywhere: the kernel closes its
\* descriptors (releasing its flock), drops its mappings and walks its robust
\* list.  The files stay.
Die(p) ==
  /\ pc[p] # "dead"
  /\ pc' = [pc EXCEPT ![p] = "dead"]
  /\ tid' = [tid EXCEPT ![p] = 0]
  /\ mtx' = KernelExit(mtx, tid[p], rl[p])
  /\ flockHolder' = IF flockHolder = p THEN 0 ELSE flockHolder
  /\ first' = [first EXCEPT ![p] = 0]
  /\ attr' = [attr EXCEPT ![p] = NoAttr]
  /\ hasMtx' = [hasMtx EXCEPT ![p] = FALSE]
  /\ rl' = [rl EXCEPT ![p] = "none"]
  /\ ret' = [ret EXCEPT ![p] = NoRet]
  /\ inCS' = [inCS EXCEPT ![p] = FALSE]
  /\ deathPending' = (deathPending \/ inCS[p])
  /\ smap' = [smap EXCEPT ![p] = "none"]
  /\ priv' = [priv EXCEPT ![p] = 0]
  /\ shmT' = [shmT EXCEPT ![p] = 0]
  /\ reg' = [reg EXCEPT ![p] = 0]
  /\ UNCHANGED <<nextTid, mfile, sfile, lastWrite, fin>>

\* ------------------------------------------------------------- Spec

\* Mtx alone: processes open, lock, unlock, drop and terminate.
MtxStep(p) ==
  \/ MtxNewOpen(p)
  \/ MtxNewTruncate(p)
  \/ MtxNewFlock(p)
  \/ MtxNewReadFirst(p)
  \/ MtxNewInit(p)
  \/ MtxNewReturn(p)
  \/ MtxLockCall(p)
  \/ MtxLockAcquire(p)
  \/ MtxLockConsistent(p)
  \/ MtxUnlock(p)
  \/ MtxDrop(p)

Next == \E p \in Procs : Start(p) \/ Die(p) \/ MtxStep(p)

Spec == Init /\ [][Next]_vars

\* Clients that pair the two: open the Mtx, open the Shm<T>, then lock,
\* access, unlock, again and again.  A client may terminate anywhere.
UseStep(p) ==
  \/ MtxNewOpen(p)
  \/ MtxNewTruncate(p)
  \/ MtxNewFlock(p)
  \/ MtxNewReadFirst(p)
  \/ MtxNewInit(p)
  \/ MtxNewReturn(p)
  \/ hasMtx[p] /\ \E sz \in Sizes : ShmNewOpen(p, sz)
  \/ ShmNewTruncate(p)
  \/ ShmNewMmap(p)
  \/ smap[p] # "none" /\ ~inCS[p] /\ MtxLockCall(p)
  \/ MtxLockAcquire(p)
  \/ MtxLockConsistent(p)
  \/ inCS[p] /\ ret[p].op = "lock" /\ ShmAccessRead(p)
  \/ \E v \in 0..MaxVal : ShmAccessWrite(p, v)
  \/ ShmAccessReturn(p)
  \/ inCS[p] /\ ret[p].op = "access" /\ MtxUnlock(p)

\* The clients are interchangeable, so they are started in the order of
\* their index.
NextUse == \E p \in Procs : (p = nextTid /\ Start(p)) \/ Die(p) \/ UseStep(p)

SpecUse == Init /\ [][NextUse]_vars

\* The end-to-end scenario of spec section 8: processes run one after
\* another; each opens the Mtx and the Shm<i64>, locks, reads v, writes (0 in
\* the first run, v + 1 in the second and third, nothing afterwards),
\* unlocks, drops both handles and exits.  No run ends holding the lock, so
\* pthread_mutex_lock never reports EOWNERDEAD here (part of C10).
AllOthersDead(p) == \A q \in Procs \ {p} : pc[q] = "dead"

SeqWrites(p) == tid[p] <= 3

SeqValue(p) == IF tid[p] = 1 THEN 0 ELSE reg[p] + 1

SeqStep(p) ==
  \/ AllOthersDead(p) /\ StartUpTo(p, MaxRuns)
  \/ ret[p].op = "none" /\ MtxNewOpen(p)
  \/ MtxNewTruncate(p)
  \/ MtxNewFlock(p)
  \/ MtxNewReadFirst(p)
  \/ MtxNewInit(p)
  \/ MtxNewReturn(p)
  \/ hasMtx[p] /\ ret[p].op = "new" /\ ShmNewOpen(p, I64Size)
  \/ ShmNewTruncate(p)
  \/ ShmNewMmap(p)
  \/ smap[p] # "none" /\ ret[p].op = "shmnew" /\ MtxLockCall(p)
  \/ MtxLockAcquire(p)
  \/ inCS[p] /\ ret[p].op = "lock" /\ ShmAccessRead(p)
  \/ SeqWrites(p) /\ ShmAccessWrite(p, SeqValue(p))
  \/ ~SeqWrites(p) /\ ShmAccessReturn(p)
  \/ inCS[p] /\ ret[p].op = "access" /\ MtxUnlock(p)
  \/ ret[p].op = "unlock" /\ ShmDrop(p)
  \/ ret[p].op = "unlock" /\ MtxDrop(p)
  \/ ret[p].op = "unlock" /\ ~hasMtx[p] /\ smap[p] = "none" /\ Die(p)

NextSeq == \E p \in Procs : SeqStep(p)

SpecSeq == Init /\ [][NextSeq]_vars

\* ----------------------------------------------------- failing OS calls
\* SpecF adds the failures POSIX allows the OS calls to report.

\* open fails (EMFILE, EACCES, ...)
MtxNewOpenFails(p) == MtxNewOpenOs(p, -1)

\* ftruncate or dup fails (ENOSPC, EMFILE, ...)
MtxNewTruncateFails(p) == MtxNewTruncateOs(p, -1)

\* flock or mmap fails (EINTR, ENOLCK, ENOMEM, ...)
MtxNewFlockFails(p) == MtxNewFlockOs(p, -1)

\* pthread_mutexattr_init, _setpshared or _setrobust returns an error and
\* leaves the attribute object without what it was to set
BadAttrs == {[robust |-> FALSE, pshared |-> FALSE],
             [robust |-> TRUE, pshared |-> FALSE],
             [robust |-> FALSE, pshared |-> TRUE]}

MtxNewAttrFails(p) == \E a \in BadAttrs : MtxNewReadFirstOs(p, a, EINVAL)

\* pthread_mutex_init returns an error (ENOMEM, EAGAIN, ...)
MtxNewInitFails(p) == MtxNewInitOs(p, ENOMEM)

\* releasing the flock fails
MtxNewReturnFails(p) == MtxNewReturnOs(p, -1)

\* pthread_mutex_lock returns an error without acquiring
MtxLockFails(p) == \E e \in {EDEADLK, EINVAL} : MtxLockAcquireOs(p, [rc |-> e, m |-> mtx])

\* pthread_mutex_consistent returns an error
MtxLockConsistentFails(p) == MtxLockConsistentOs(p, [rc |-> EINVAL, m |-> mtx])

FaultStep(p) ==
  \/ MtxNewOpenFails(p)
  \/ MtxNewTruncateFails(p)
  \/ MtxNewFlockFails(p)
  \/ MtxNewAttrFails(p)
  \/ MtxNewInitFails(p)
  \/ MtxNewReturnFails(p)
  \/ MtxLockFails(p)
  \/ MtxLockConsistentFails(p)

NextF == \E p \in Procs : Start(p) \/ Die(p) \/ MtxStep(p) \/ FaultStep(p)

SpecF == Init /\ [][NextF]_vars

\* ------------------------------------------------- further specifications

\* Shm<T> alone, for a T of the size of an i64 that has drop glue: processes
\* open, run access() with the closure |v| if *v < MaxVal { *v += 1 }, drop
\* and terminate.  No Mtx is used.
ShmStep(p) ==
  \/ \E sz \in Sizes : ShmNewOpen(p, sz)
  \/ ShmNewTruncate(p)
  \/ ShmNewMmap(p)
  \/ ShmAccessRead(p)
  \/ reg[p] < MaxVal /\ ShmAccessWrite(p, reg[p] + 1)
  \/ reg[p] >= MaxVal /\ ShmAccessReturn(p)
  \/ ShmDropInPlace(p)
  \/ ShmDropMunmap(p)

NextShm == \E p \in Procs : (p = nextTid /\ Start(p)) \/ Die(p) \/ ShmStep(p)

SpecShm == Init /\ [][NextShm]_vars

\* Mtx alone, the processes (interchangeable) started once each, in the
\* order of their index.
NextMtx == \E p \in Procs : (p = nextTid /\ Start(p)) \/ Die(p) \/ MtxStep(p)

SpecMtx == Init /\ [][NextMtx]_vars

\* Mtx with three processes, each started once: a holder, an opener and a
\* locker can be alive together.
NextRec == \E p \in AllProcs : (p = nextTid /\ StartUpTo(p, MaxProcs)) \/ Die(p) \/ MtxStep(p)

SpecRec == Init /\ [][NextRec]_vars

\* ======================================================== claims C1..C5
\* checked under Spec: processes that open, lock, unlock, drop and terminate

Holders == {p \in Procs : inCS[p]}

\* pthread_mutex_init has run on the control block
Initialized(m) == m.robust /\ m.pshared

\* some step of Mtx::new taken by process b
MtxNewStep(b) ==
  \/ MtxNewOpen(b)
  \/ MtxNewTruncate(b)
  \/ MtxNewFlock(b)
  \/ MtxNewReadFirst(b)
  \/ MtxNewInit(b)
  \/ MtxNewReturn(b)

\* Mtx::new returns to process p in this step
MtxNewReturns(p) == pc[p] \in {"idle", "n_trunc", "n_flock", "n_read", "n_init", "n_unflock"}
                    /\ pc'[p] = "idle" /\ ret'[p].op = "new" /\ ret'[p] # ret[p]

\* lock() returns to process p in this step
MtxLockReturns(p) == pc[p] \in {"l_lock", "l_cons"} /\ pc'[p] = "idle"

\* C1: mutual exclusion -- at most one process at a time is between a lock()
\* that returned Acquired or OwnerDiedRecovered and its unlock() or death.
C1_MutualExclusion == Cardinality(Holders) <= 1

\* C2: owner-death recovery -- a lock() that returns gives OwnerDiedRecovered
\* exactly when a holder died since the last lock() that returned (the first
\* lock() after each death and no other), and Acquired otherwise.
C2_OwnerDiedExactlyOnce ==
  [][\A p \in Procs :
       MtxLockReturns(p) =>
         /\ deathPending => ret'[p].val = "OwnerDiedRecovered"
         /\ ~deathPending => ret'[p].val = "Acquired"]_vars

\* C3: one-time initialization -- pthread_mutex_init runs only on a control
\* block that is not initialized yet, and an initialized block stays so.
C3_InitializedOnce ==
  [][/\ \A p \in Procs : MtxNewInit(p) => ~Initialized(mtx)
     /\ Initialized(mtx) => Initialized(mtx')]_vars

\* C4: open does not disturb a holder -- while process a is a holder, no step
\* of a Mtx::new run by another process b changes the control block.
C4_OpenKeepsHolder ==
  [][\A a \in Procs : \A b \in Procs \ {a} :
       (inCS[a] /\ MtxNewStep(b)) => mtx' = mtx]_vars

\* C5: unlock() through a handle of a process that does not hold the lock
\* returns Err and leaves the control block unchanged.
C5_UnlockNotHeldFails ==
  [][\A p \in Procs :
       (MtxUnlock(p) /\ ~Holds(mtx, tid[p])) =>
         (ret'[p].val = "Err" /\ mtx' = mtx)]_vars

\* C6: lock() returns Err whenever the pthread call it ends with returned a
\* nonzero code (pthread_mutex_lock anything but EOWNERDEAD, or
\* pthread_mutex_consistent), and returns Acquired or OwnerDiedRecovered only
\* when the caller owns the mutex.
C6_LockErrorsSurface ==
  [][\A p \in Procs :
       MtxLockReturns(p) =>
         /\ ret'[p].rc # 0 => ret'[p].val = "Err"
         /\ ret'[p].val \in {"Acquired", "OwnerDiedRecovered"} => Holds(mtx', tid[p])]_vars

\* C7: Mtx::new returns a handle only if no OS call in it failed and no
\* pthread call in it returned a nonzero code, and then the control block is
\* initialized.
C7_NewOkOnlyIfAllOk ==
  [][\A p \in Procs :
       MtxNewReturns(p) =>
         /\ ret'[p].rc # 0 => ret'[p].val = "Err"
         /\ ret'[p].val = "Ok" => Initialized(mtx')]_vars

\* ======================================================= claims C8..C10

\* C8: Shm::<T>::new with size_of::<T>() = 0 returns Err before any OS step:
\* no file is created, resized or mapped and nothing but the caller's result
\* changes.
C8_ZeroSizedRejectedEagerly ==
  [][\A p \in Procs :
       ShmNewOpen(p, 0) =>
         /\ ret'[p].op = "shmnew" /\ ret'[p].val = "Err"
         /\ UNCHANGED <<pc, sfile, smap, priv, mfile, mtx, flockHolder, hasMtx>>]_vars

\* a zero-sized open has failed and the backing file does not exist
C8_Witness ==
  \E p \in Procs : ret[p] = Ret("shmnew", "Err") /\ ~sfile.exists /\ smap[p] = "none"

\* C9: every handle on the name is a view of one value -- what access()
\* reads through any handle is what the most recent write inside access()
\* through any handle stored, in particular a write by another process that
\* unlocked before the reader locked.
C9_SharedView ==
  [][\A p \in Procs : ShmAccessRead(p) => reg'[p] = lastWrite.val]_vars

\* process p, holding the mutex, reads back in access() the nonzero value
\* another process w wrote in access() under the lock before unlocking
C9_Witness ==
  \E p \in Procs : \E w \in Procs \ {p} :
    /\ pc[p] = "a_in" /\ inCS[p] /\ Holds(mtx, tid[p])
    /\ lastWrite.by = w /\ lastWrite.locked /\ ~inCS[w] /\ ret[w].op = "unlock"
    /\ lastWrite.val # 0 /\ reg[p] = lastWrite.val

\* C10: in the sequential scenario every lock() returns Acquired (no
\* pthread_mutex_lock reports a dead owner), run k
\* (k = 2, 3) reads k - 2, the value run k - 1 wrote, and every opener after
\* the third run reads 2.
C10_SequentialCounter ==
  \A p \in Procs :
    /\ ret[p].op = "lock" => ret[p].val = "Acquired"
    /\ pc[p] # "l_cons"
    /\ (pc[p] = "a_in" /\ tid[p] \in {2, 3}) => reg[p] = tid[p] - 2
    /\ (pc[p] = "a_in" /\ tid[p] > 3) => reg[p] = 2
    /\ (tid[p] > 3 /\ smap[p] # "none") => sfile.val = 2

\* the fourth process to run has locked and reads 2
C10_Witness ==
  \E p \in Procs : tid[p] = 4 /\ pc[p] = "a_in" /\ inCS[p] /\ reg[p] = 2 /\ Initialized(mtx)

\* ====================================================== claims C11..C18

\* C11: dropping a Mtx handle removes only the dropping process's mapping --
\* the control block (kind, futex word, owner) and the backing file are
\* unchanged, so a lock held by the dropping process stays held, and the
\* handles, results and critical sections of the other processes are as they
\* were.
C11_DropFrame ==
  [][\A p \in Procs :
       MtxDrop(p) =>
         /\ mtx' = mtx /\ mfile' = mfile /\ flockHolder' = flockHolder
         /\ hasMtx' = [hasMtx EXCEPT ![p] = FALSE]
         /\ inCS' = inCS
         /\ \A q \in Procs \ {p} : pc'[q] = pc[q] /\ ret'[q] = ret[q]]_vars

\* a process dropped its handle while holding the lock: the initialized
\* block still names it as the owner, the file exists, another process has
\* a handle
C11_Witness ==
  \E p \in Procs : \E q \in Procs \ {p} :
    /\ ~hasMtx[p] /\ rl[p] = "dangling" /\ inCS[p] /\ Holds(mtx, tid[p])
    /\ Initialized(mtx) /\ mfile.exists /\ mfile.size = MtxSize
    /\ hasMtx[q]

\* Openers only, with the failures the OS calls of Mtx::new may report:
\* processes call Mtx::new, drop the handle, call it again, and terminate
\* anywhere.  A call that has started goes on (weak fairness of each of its
\* steps); flock(LOCK_EX) is granted to a caller that is blocked in it while
\* the lock becomes free again and again (strong fairness).  Failures and
\* terminations are never forced.  The openers are interchangeable, so they
\* are started in the order of their index.
OpenFaultStep(p) ==
  \/ MtxNewOpenFails(p)
  \/ MtxNewTruncateFails(p)
  \/ MtxNewFlockFails(p)
  \/ MtxNewAttrFails(p)
  \/ MtxNewInitFails(p)
  \/ MtxNewReturnFails(p)

NextOpen ==
  \E p \in Procs :
    (p = nextTid /\ Start(p)) \/ Die(p) \/ MtxNewStep(p) \/ OpenFaultStep(p) \/ MtxDrop(p)

FairOpen ==
  \A p \in Procs :
    /\ WF_vars(MtxNewTruncate(p))
    /\ SF_vars(MtxNewFlock(p))
    /\ WF_vars(MtxNewReadFirst(p))
    /\ WF_vars(MtxNewInit(p))
    /\ WF_vars(MtxNewReturn(p))

SpecOpen == Init /\ [][NextOpen]_vars /\ FairOpen

\* the part of Mtx::new between Flock::lock returning and the flock's release
InFlockSection(p) == pc[p] \in {"n_read", "n_init", "n_unflock"}

\* process p is inside a call of Mtx::new
InMtxNew(p) == pc[p] \in {"n_trunc", "n_flock", "n_read", "n_init", "n_unflock"}

\* C12: the processes inside the flock-guarded section of Mtx::new are
\* exactly the holder of the flock, so there is at most one, and a process
\* that Mtx::new has returned to (Ok or Err) does not hold the flock.
C12_FlockSerializes ==
  /\ \A p \in Procs : InFlockSection(p) <=> flockHolder = p
  /\ Cardinality({p \in Procs : InFlockSection(p)}) <= 1

\* one opener is in the section, about to initialize, while another one has
\* reached Flock::lock and waits
C12_Witness ==
  \E p \in Procs : \E q \in Procs \ {p} :
    pc[p] = "n_init" /\ flockHolder = p /\ pc[q] = "n_flock"

\* some step of Shm::new taken by process p
ShmNewStep(p) ==
  \/ \E sz \in Sizes : ShmNewOpen(p, sz)
  \/ ShmNewTruncate(p)
  \/ ShmNewMmap(p)

\* C13: Shm::new never writes into the value -- over every step of it the
\* bytes of a backing file that already has size_of::<T>() bytes stay as they
\* are, a file that has not that size yet ends up zero-filled, and no store
\* through any mapping is made.
C13_NewKeepsContents ==
  [][\A p \in Procs :
       ShmNewStep(p) =>
         /\ (sfile.exists /\ sfile.size = I64Size) => sfile'.val = sfile.val
         /\ ~(sfile.exists /\ sfile.size = I64Size) => sfile'.val = 0
         /\ lastWrite' = lastWrite /\ priv' = priv /\ fin' = fin]_vars

\* Shm::new has returned Ok to p on a file holding the nonzero value another
\* process stored: the value is still there
C13_Witness ==
  \E p \in Procs :
    /\ ret[p] = Ret("shmnew", "Ok") /\ smap[p] = "shared"
    /\ lastWrite.by \in Procs \ {p} /\ lastWrite.val # 0 /\ sfile.val = lastWrite.val

\* C14: dropping a Shm<T> runs T's finalization on the still mapped value,
\* then unmaps; the finalization runs once for every dropped handle, so twice
\* on the same file for two handles; a mapping goes away only that way or with
\* its process; the drop leaves the backing file as it is and the file is
\* never removed.
C14_DropOrder ==
  [][/\ \A p \in Procs :
          /\ (pc[p] = "idle" /\ pc'[p] = "d_unmap") =>
                (fin' = fin + 1 /\ smap[p] # "none" /\ smap'[p] = smap[p] /\ sfile' = sfile)
          /\ (pc[p] = "d_unmap" /\ pc'[p] = "idle") =>
                (fin' = fin /\ smap[p] # "none" /\ smap'[p] = "none" /\ sfile' = sfile)
          /\ (smap[p] # "none" /\ smap'[p] = "none") => (pc[p] = "d_unmap" \/ pc'[p] = "dead")
     /\ fin' # fin => \E p \in Procs : pc[p] = "idle" /\ pc'[p] = "d_unmap"
     /\ sfile.exists => sfile'.exists]_vars

\* two handles on the name are being dropped: the finalization has run twice
\* on the one value, both mappings are still there, the file exists
C14_Witness ==
  \E p \in Procs : \E q \in Procs \ {p} :
    /\ pc[p] = "d_unmap" /\ pc[q] = "d_unmap" /\ fin = 2
    /\ smap[p] = "shared" /\ smap[q] = "shared" /\ sfile.exists /\ sfile.size = I64Size

C16_RecoveryUsable ==
  [][/\ \A p \in AllProcs :
          (MtxLockReturns(p) /\ ret'[p].val = "OwnerDiedRecovered") =>
             (Holds(mtx', tid[p]) /\ mtx'.owner = tid[p])
     /\ mtx'.owner # PTHREAD_MUTEX_NOTRECOVERABLE]_vars

\* the position of a statement of Mtx::new in its straight-line code
NewRank(s) ==
  CASE s = "n_trunc" -> 1
    [] s = "n_flock" -> 2
    [] s = "n_read" -> 3
    [] s = "n_init" -> 4
    [] s = "n_unflock" -> 5
    [] OTHER -> 0

FairLock ==
  \A p \in Procs :
    /\ WF_vars(MtxLockAcquire(p))
    /\ WF_vars(MtxLockConsistent(p))
    /\ WF_vars(inCS[p] /\ (MtxUnlock(p) \/ Die(p)))

SpecLive == Init /\ [][Next]_vars /\ FairLock

\* some process is blocked in (or about to return from) pthread_mutex_lock
SomeBlocked == \E p \in Procs : pc[p] = "l_lock"

\* lock() returns Acquired or OwnerDiedRecovered to process p in this step
MtxLockSucceeds(p) == MtxLockReturns(p) /\ ret'[p].val \in {"Acquired", "OwnerDiedRecovered"}

\* C18: lock progress -- processes are not left blocked in lock() for ever:
\* provided every holder eventually unlocks or terminates, either again and
\* again no process is blocked in lock(), or again and again a lock() returns
\* Acquired or OwnerDiedRecovered (to whichever waiter); in particular after
\* a holder has terminated holding the lock.
C18_LockProgress ==
  \/ []<>(~SomeBlocked)
  \/ []<><<\E p \in Procs : MtxLockSucceeds(p)>>_vars

====
